---- MODULE Spec2Model ----
(***************************************************************************)
(* go-irodsclient: the session layer (irods/session) and the bulk transfer *)
(* engine (irods/fs/data_object_bulk.go).                                  *)
(*                                                                         *)
(* Every session operation runs under sess.mutex, so each one is a single  *)
(* action.  The outcome of a connect and of a PoorMansRollback round trip  *)
(* is decided by the server: both are inputs of the actions.               *)
(***************************************************************************)
EXTENDS Integers, Sequences, FiniteSets

\* ---------------------------------------------------------------- bounds
\* Number of connection identities the model can create.
MaxConns == 3
\* ConnectionPoolConfig.MaxCap
MaxCap == 2
\* ConnectionPoolConfig.MaxIdle
MaxIdle == 1
\* Number of idle connections the pool holds at construction (InitialCap).
InitialCap == 1
\* References to connections that callers hold at the same time.
MaxRefs == 4
\* Largest number passed to AcquireConnectionsMulti.
MaxMulti == 2
\* Failed acquisitions counted by the pool-failure metric.
MaxFailures == 1
\* Largest task count of a transfer.
MaxTasks == 2
\* Largest size of a transferred object, in bytes.
MaxFileLen == 3
\* common.ReadWriteBufferSize, in bytes.
BufferSize == 1
\* Largest size for which the automatic task count is one.
AutoSingleTaskLen == 1

ConnIds == 1..MaxConns
NoConn == 0

VARIABLES
    pool,                 \* ConnectionPool: idle list, occupied set, ...
    sharedConnections,    \* IRODSSession.sharedConnections
    startNewTransaction,  \* IRODSSession.startNewTransaction
    poormansRollbackFail, \* IRODSSession.poormansRollbackFail
    poolFailures,         \* metrics: connection pool failures
    mutex,                \* IRODSSession.mutex: "free" or "held"
    socketFailed,         \* connections whose socket-failed flag is raised
    config,               \* IRODSSessionConfig and account: what was asked for
    last,                 \* the session operation that ran last
    callers,              \* callers of the session: position, connection
    xfer,                 \* the transfer call: its inputs, position, result
    tasks,                \* the transfer's worker tasks
    errChan               \* errChan: the errors the workers enqueued

sessVars == <<pool, sharedConnections, startNewTransaction,
              poormansRollbackFail, poolFailures, mutex, socketFailed, config,
              last>>

\* What the callers of the session hold; the session's own operations
\* leave it alone.
userVars == <<callers, xfer, tasks, errChan>>

\* ------------------------------------------------------------ map helpers
MapPut(m, k, v) == [x \in (DOMAIN m) \cup {k} |-> IF x = k THEN v ELSE m[x]]
MapDel(m, k) == [x \in (DOMAIN m) \ {k} |-> m[x]]
EmptyMap == [x \in {} |-> 0]

RECURSIVE SumOver(_, _)
SumOver(f, S) ==
    IF S = {} THEN 0
    ELSE LET x == CHOOSE y \in S : TRUE IN f[x] + SumOver(f, S \ {x})

SeqToSet(q) == {q[i] : i \in 1..Len(q)}

\* ------------------------------------------------------- connection pool
\* pool == [idle: sequence of connections, occupied: set, dead: set of
\*          destroyed connections, created: count, maxCap, maxIdle].  Lifespan and idle
\* timeout are clock conditions and are not modelled: no connection expires.
PoolAvailableConnections(p) == p.maxCap - Cardinality(p.occupied)

PoolOpenConnections(p) == Len(p.idle) + Cardinality(p.occupied)

\* Create a fresh connection: fails when the connect fails.
PoolCreate(p, connectOk) ==
    IF connectOk /\ p.created < MaxConns
    THEN [pool |-> [p EXCEPT !.created = p.created + 1,
                             !.occupied = p.occupied \cup {p.created + 1}],
          conn |-> p.created + 1, isNew |-> TRUE, err |-> "none"]
    ELSE [pool |-> p, conn |-> NoConn, isNew |-> FALSE, err |-> "connect"]

PoolGet(p, connectOk) ==
    IF p.idle /= <<>>
    THEN [pool |-> [p EXCEPT !.idle = Tail(p.idle),
                             !.occupied = p.occupied \cup {Head(p.idle)}],
          conn |-> Head(p.idle), isNew |-> FALSE, err |-> "none"]
    ELSE IF Cardinality(p.occupied) < p.maxCap
    THEN PoolCreate(p, connectOk)
    ELSE [pool |-> p, conn |-> NoConn, isNew |-> FALSE, err |-> "full"]

PoolGetNew(p, connectOk) ==
    IF Cardinality(p.occupied) < p.maxCap
    THEN PoolCreate(p, connectOk)
    ELSE [pool |-> p, conn |-> NoConn, isNew |-> FALSE, err |-> "full"]

PoolDiscard(p, c) ==
    [p EXCEPT !.occupied = p.occupied \ {c}, !.dead = p.dead \cup {c}]

PoolReturn(p, c, sf) ==
    IF c \in sf \/ Len(p.idle) >= p.maxIdle
    THEN PoolDiscard(p, c)
    ELSE [p EXCEPT !.occupied = p.occupied \ {c}, !.idle = Append(p.idle, c)]

\* --------------------------------------------------------------- session
\* The session's fields as one record, so that an operation is a function
\* from the record before to the record after.
Sess ==
    [pool |-> pool, shared |-> sharedConnections, snt |-> startNewTransaction,
     prf |-> poormansRollbackFail, fails |-> poolFailures, sf |-> socketFailed]

\* getConnectionFromPool: reset |-> TRUE when a PoorMansRollback succeeded
\* on the connection handed out, dropped |-> the pooled connection that was
\* discarded for a new one.
getConnectionFromPool_NoReset(s, connectOk, rollbackOk) ==
    LET g == PoolGet(s.pool, connectOk) IN
    IF g.err /= "none"
    THEN [s |-> [s EXCEPT !.pool = g.pool], conn |-> NoConn, err |-> g.err,
          fromIdle |-> FALSE, reset |-> FALSE, dropped |-> NoConn]
    ELSE [s |-> [s EXCEPT !.pool = g.pool], conn |-> g.conn, err |-> "none",
          fromIdle |-> ~g.isNew, reset |-> FALSE, dropped |-> NoConn]

getConnectionFromPool(s, connectOk, rollbackOk) ==
    LET g == PoolGet(s.pool, connectOk) IN
    IF g.err /= "none"
    THEN [s |-> [s EXCEPT !.pool = g.pool], conn |-> NoConn, err |-> g.err,
          fromIdle |-> FALSE, reset |-> FALSE, dropped |-> NoConn]
    ELSE IF s.snt /\ ~g.isNew
    THEN IF s.prf \/ ~rollbackOk
         THEN LET n == PoolGetNew(PoolDiscard(g.pool, g.conn), connectOk) IN
              [s |-> [s EXCEPT !.pool = n.pool, !.prf = TRUE],
               conn |-> n.conn, err |-> n.err,
               fromIdle |-> FALSE, reset |-> FALSE, dropped |-> g.conn]
         ELSE [s |-> [s EXCEPT !.pool = g.pool], conn |-> g.conn,
               err |-> "none", fromIdle |-> TRUE, reset |-> TRUE,
               dropped |-> NoConn]
    ELSE [s |-> [s EXCEPT !.pool = g.pool], conn |-> g.conn, err |-> "none",
          fromIdle |-> ~g.isNew, reset |-> FALSE, dropped |-> NoConn]

\* "put to share"
PutToShare(m, c) ==
    IF c \in DOMAIN m THEN MapPut(m, c, m[c] + 1) ELSE MapPut(m, c, 1)

\* Mutant: the scan ends on any connection of the map.
MinShareConns_Any(m) ==
    DOMAIN m

\* The connections the scan of AcquireConnection can end on: the map is
\* ranged over in an unspecified order, the scan keeps the first strictly
\* smaller count and stops at a count of 1.
MinShareConns(m) ==
    {c \in DOMAIN m : \A d \in DOMAIN m : m[c] <= m[d]}

\* Mutant: the shared connection is handed out without counting the share.
AcquireConnectionShare_NoCount(s, pick) ==
    IF DOMAIN s.shared = {}
    THEN [s |-> [s EXCEPT !.fails = s.fails + 1], conn |-> NoConn,
          err |-> "noshared", path |-> "share"]
    ELSE [s |-> s, conn |-> pick, err |-> "none", path |-> "share"]

\* Mutant: the failure is not counted.
AcquireConnectionShare_NoMetric(s, pick) ==
    IF DOMAIN s.shared = {}
    THEN [s |-> s, conn |-> NoConn, err |-> "noshared", path |-> "share"]
    ELSE [s |-> [s EXCEPT !.shared = MapPut(s.shared, pick, s.shared[pick] + 1)],
          conn |-> pick, err |-> "none", path |-> "share"]

AcquireConnectionShare(s, pick) ==
    IF DOMAIN s.shared = {}
    THEN [s |-> [s EXCEPT !.fails = s.fails + 1], conn |-> NoConn,
          err |-> "noshared", path |-> "share"]
    ELSE [s |-> [s EXCEPT !.shared = MapPut(s.shared, pick, s.shared[pick] + 1)],
          conn |-> pick, err |-> "none", path |-> "share"]

AcquireConnectionOp(s, connectOk, rollbackOk, pick) ==
    IF PoolAvailableConnections(s.pool) > 0
    THEN LET r == getConnectionFromPool(s, connectOk, rollbackOk) IN
         IF r.err = "none"
         THEN [s |-> [r.s EXCEPT !.shared = PutToShare(r.s.shared, r.conn)],
               conn |-> r.conn, err |-> "none", path |-> "pool"]
         ELSE AcquireConnectionShare(r.s, pick)
    ELSE AcquireConnectionShare(s, pick)

\* The connection AcquireConnection picks when it has to share: any of the
\* minimal ones of the map as it is when the scan starts.
SharePicks(s, connectOk, rollbackOk) ==
    LET m == IF PoolAvailableConnections(s.pool) > 0
             THEN getConnectionFromPool(s, connectOk, rollbackOk).s.shared
             ELSE s.shared
    IN IF DOMAIN m = {} THEN {NoConn} ELSE MinShareConns(m)

\* Mutant: the entry is kept with a count of zero when the last share goes.
ReturnConnectionOp_KeepsEntry(s, c) ==
    IF c \in DOMAIN s.shared
    THEN IF s.shared[c] - 1 <= 0
         THEN [s EXCEPT !.shared = MapPut(s.shared, c, 0),
                        !.pool = PoolReturn(s.pool, c, s.sf)]
         ELSE [s EXCEPT !.shared = MapPut(s.shared, c, s.shared[c] - 1)]
    ELSE s

\* Mutant: a connection that is not in the map goes back to the pool.
ReturnConnectionOp_Unchecked(s, c) ==
    IF c \in DOMAIN s.shared
    THEN IF s.shared[c] - 1 <= 0
         THEN IF s.snt /\ s.prf
              THEN [s EXCEPT !.shared = MapDel(s.shared, c),
                             !.pool = PoolDiscard(s.pool, c)]
              ELSE [s EXCEPT !.shared = MapDel(s.shared, c),
                             !.pool = PoolReturn(s.pool, c, s.sf)]
         ELSE [s EXCEPT !.shared = MapPut(s.shared, c, s.shared[c] - 1)]
    ELSE [s EXCEPT !.pool = PoolReturn(s.pool, c, s.sf)]

\* Mutant: the last share always goes back to the pool.
ReturnConnectionOp_AlwaysReturns(s, c) ==
    IF c \in DOMAIN s.shared
    THEN IF s.shared[c] - 1 <= 0
         THEN [s EXCEPT !.shared = MapDel(s.shared, c),
                        !.pool = PoolReturn(s.pool, c, s.sf)]
         ELSE [s EXCEPT !.shared = MapPut(s.shared, c, s.shared[c] - 1)]
    ELSE s

ReturnConnectionOp(s, c) ==
    IF c \in DOMAIN s.shared
    THEN IF s.shared[c] - 1 <= 0
         THEN IF s.snt /\ s.prf
              THEN [s EXCEPT !.shared = MapDel(s.shared, c),
                             !.pool = PoolDiscard(s.pool, c)]
              ELSE [s EXCEPT !.shared = MapDel(s.shared, c),
                             !.pool = PoolReturn(s.pool, c, s.sf)]
         ELSE [s EXCEPT !.shared = MapPut(s.shared, c, s.shared[c] - 1)]
    ELSE s

\* Mutant: the connection is destroyed at once, also while it is shared.
DiscardConnectionOp_Eager(s, c) ==
    IF c \in DOMAIN s.shared
    THEN IF s.shared[c] - 1 <= 0
         THEN [s EXCEPT !.shared = MapDel(s.shared, c),
                        !.pool = PoolDiscard(s.pool, c)]
         ELSE [s EXCEPT !.shared = MapPut(s.shared, c, s.shared[c] - 1),
                        !.pool = PoolDiscard(s.pool, c)]
    ELSE s

\* Mutant: the last share goes back to the pool.
DiscardConnectionOp_ToIdle(s, c) ==
    IF c \in DOMAIN s.shared
    THEN IF s.shared[c] - 1 <= 0
         THEN [s EXCEPT !.shared = MapDel(s.shared, c),
                        !.pool = PoolReturn(s.pool, c, s.sf)]
         ELSE [s EXCEPT !.shared = MapPut(s.shared, c, s.shared[c] - 1)]
    ELSE s

DiscardConnectionOp(s, c) ==
    IF c \in DOMAIN s.shared
    THEN IF s.shared[c] - 1 <= 0
         THEN [s EXCEPT !.shared = MapDel(s.shared, c),
                        !.pool = PoolDiscard(s.pool, c)]
         ELSE [s EXCEPT !.shared = MapPut(s.shared, c, s.shared[c] - 1)]
    ELSE s

\* AcquireConnectionsMulti, first loop: up to `number` connections from the
\* pool; env[i] is the server's answer to the i-th attempt.
RECURSIVE MultiFromPool(_, _, _, _, _)
MultiFromPool(s, conns, i, number, env) ==
    IF i > number \/ PoolAvailableConnections(s.pool) <= 0
    THEN [s |-> s, conns |-> conns]
    ELSE LET r == getConnectionFromPool(s, env[i].connectOk, env[i].rollbackOk) IN
         IF r.err /= "none"
         THEN [s |-> r.s, conns |-> conns]
         ELSE MultiFromPool([r.s EXCEPT !.shared = PutToShare(r.s.shared, r.conn)],
                            conns \cup {r.conn}, i + 1, number, env)

\* Second loop: the connections still in need are taken from the share map,
\* pass after pass, one share per entry and pass.  A pass ranges over the
\* map in an unspecified order: `rest` is the set of entries the last,
\* partial pass reaches.
MultiRests(m, need) ==
    IF need <= 0 \/ DOMAIN m = {} THEN {{}}
    ELSE {R \in SUBSET (DOMAIN m) :
             Cardinality(R) = need % Cardinality(DOMAIN m)}

MultiFromShare(s, conns, need, rest) ==
    IF need <= 0
    THEN [s |-> s, conns |-> conns, hung |-> FALSE]
    ELSE IF DOMAIN s.shared = {}
    THEN \* `for connectionsInNeed > 0` over an empty map never ends
         [s |-> s, conns |-> conns, hung |-> TRUE]
    ELSE LET k == Cardinality(DOMAIN s.shared)
             full == need \div k
             m == [c \in DOMAIN s.shared |->
                      s.shared[c] + full + (IF c \in rest THEN 1 ELSE 0)]
         IN [s |-> [s EXCEPT !.shared = m],
             conns |-> conns \cup (IF full >= 1 THEN DOMAIN s.shared ELSE rest),
             hung |-> FALSE]

\* What the first loop did, attempt by attempt: the connection it got, whether
\* it came from the idle list, whether a rollback succeeded on it, and the
\* pooled connection it discarded for a new one.
RECURSIVE MultiTrace(_, _, _, _)
MultiTrace(s, i, number, env) ==
    IF i > number \/ PoolAvailableConnections(s.pool) <= 0
    THEN {}
    ELSE LET r == getConnectionFromPool(s, env[i].connectOk, env[i].rollbackOk)
             g == [conn |-> r.conn, fromIdle |-> r.fromIdle,
                   reset |-> r.reset, dropped |-> r.dropped]
         IN IF r.err /= "none"
            THEN {g}
            ELSE {g} \cup
                 MultiTrace([r.s EXCEPT !.shared = PutToShare(r.s.shared, r.conn)],
                            i + 1, number, env)

\* The same for the one attempt of AcquireConnection.
AcquireTrace(s, connectOk, rollbackOk) ==
    MultiTrace(s, 1, 1, <<[connectOk |-> connectOk, rollbackOk |-> rollbackOk]>>)

\* The server's answers to the attempts of one call.  The first loop stops
\* at the first failed connect, and after the first failed rollback no
\* rollback is tried again, so an answer is given by the attempt at which
\* connects start to fail and the attempt at which rollbacks start to fail.
MultiEnvs(number) ==
    {[i \in 1..number |-> [connectOk |-> i < fc, rollbackOk |-> i < fr]] :
        fc \in 1..(number + 1), fr \in 1..(number + 1)}

AcquireConnectionsMultiOp(s, number, env, rest) ==
    LET a == MultiFromPool(s, {}, 1, number, env) IN
    MultiFromShare(a.s, a.conns, number - Cardinality(a.conns), rest)

\* The share map as it is when the second loop starts.
MultiShareMap(s, number, env) == MultiFromPool(s, {}, 1, number, env).s.shared

MultiNeed(s, number, env) ==
    number - Cardinality(MultiFromPool(s, {}, 1, number, env).conns)

\* AcquireUnmanagedConnection: a fresh connection that is not put to share.
AcquireUnmanagedConnectionOp(s, connectOk) ==
    LET n == PoolGetNew(s.pool, connectOk) IN
    [s |-> [s EXCEPT !.pool = n.pool], conn |-> n.conn, err |-> n.err]

\* NewIRODSSession: the session after construction.
NewConnectionPool(initialCap, maxIdle, maxCap) ==
    [idle |-> [i \in 1..initialCap |-> i], occupied |-> {}, dead |-> {},
     created |-> initialCap, maxCap |-> maxCap, maxIdle |-> maxIdle]

NewIRODSSession(p, cfgSnt, anonymous, probeOk) ==
    LET snt == IF anonymous THEN FALSE ELSE cfgSnt
        prf == anonymous
        g == PoolGet(p, TRUE)
    IN IF snt
       THEN IF probeOk
            THEN [pool |-> PoolReturn(g.pool, g.conn, {}), snt |-> snt, prf |-> prf]
            ELSE [pool |-> PoolDiscard(g.pool, g.conn), snt |-> snt, prf |-> TRUE]
       ELSE [pool |-> p, snt |-> snt, prf |-> prf]

\* ------------------------------------------------------- session actions
Share(m, c) == IF c \in DOMAIN m THEN m[c] ELSE 0

TotalShares == SumOver(sharedConnections, DOMAIN sharedConnections)

Install(s) ==
    /\ pool' = s.pool
    /\ sharedConnections' = s.shared
    /\ startNewTransaction' = s.snt
    /\ poormansRollbackFail' = s.prf
    /\ poolFailures' = s.fails

SessInit(initialCap, maxIdle, maxCap) ==
    /\ \E cfgSnt \in BOOLEAN, anonymous \in BOOLEAN, probeOk \in BOOLEAN :
         LET n == NewIRODSSession(NewConnectionPool(initialCap, maxIdle, maxCap),
                                  cfgSnt, anonymous, probeOk) IN
         /\ pool = n.pool
         /\ startNewTransaction = n.snt
         /\ poormansRollbackFail = n.prf
         /\ config = [startNewTransaction |-> cfgSnt, anonymous |-> anonymous]
    /\ sharedConnections = EmptyMap
    /\ poolFailures = 0
    /\ mutex = "free"
    /\ socketFailed = {}
    /\ last = [op |-> "NewIRODSSession", conn |-> NoConn, err |-> "none",
               pre |-> 0, conns |-> {}, got |-> {}]

AcquireConnection ==
    /\ mutex = "free"
    /\ TotalShares < MaxRefs
    /\ poolFailures < MaxFailures
    /\ \E connectOk \in BOOLEAN, rollbackOk \in BOOLEAN :
         \E pick \in SharePicks(Sess, connectOk, rollbackOk) :
           LET r == AcquireConnectionOp(Sess, connectOk, rollbackOk, pick) IN
           /\ Install(r.s)
           /\ last' = [op |-> "AcquireConnection", conn |-> r.conn,
                       err |-> r.err, pre |-> Share(sharedConnections, r.conn),
                       conns |-> {},
                       got |-> AcquireTrace(Sess, connectOk, rollbackOk)]
    /\ UNCHANGED <<mutex, socketFailed, config>>
    /\ UNCHANGED userVars

AcquireConnectionsMulti ==
    /\ mutex = "free"
    /\ \E number \in 1..MaxMulti :
         /\ TotalShares + number <= MaxRefs
         /\ \E env \in MultiEnvs(number) :
              \E rest \in MultiRests(MultiShareMap(Sess, number, env),
                                     MultiNeed(Sess, number, env)) :
                LET r == AcquireConnectionsMultiOp(Sess, number, env, rest) IN
                /\ Install(r.s)
                /\ mutex' = IF r.hung THEN "held" ELSE "free"
                /\ last' = [op |-> "AcquireConnectionsMulti", conn |-> NoConn,
                            err |-> IF r.hung THEN "hung" ELSE "none",
                            pre |-> number, conns |-> r.conns,
                            got |-> MultiTrace(Sess, 1, number, env)]
    /\ UNCHANGED <<socketFailed, config>>
    /\ UNCHANGED userVars

\* A caller calls with any connection the pool ever made: one it borrowed,
\* or one that is not in the share map (any more).
ReturnConnection ==
    /\ mutex = "free"
    /\ \E c \in ConnIds :
         /\ c <= pool.created
         /\ Install(ReturnConnectionOp(Sess, c))
         /\ last' = [op |-> "ReturnConnection", conn |-> c, err |-> "none",
                     pre |-> Share(sharedConnections, c), conns |-> {}, got |-> {}]
    /\ UNCHANGED <<mutex, socketFailed, config>>
    /\ UNCHANGED userVars

DiscardConnection ==
    /\ mutex = "free"
    /\ \E c \in ConnIds :
         /\ c <= pool.created
         /\ Install(DiscardConnectionOp(Sess, c))
         /\ last' = [op |-> "DiscardConnection", conn |-> c, err |-> "none",
                     pre |-> Share(sharedConnections, c), conns |-> {}, got |-> {}]
    /\ UNCHANGED <<mutex, socketFailed, config>>
    /\ UNCHANGED userVars

AcquireUnmanagedConnection ==
    /\ mutex = "free"
    /\ \E connectOk \in BOOLEAN :
         LET r == AcquireUnmanagedConnectionOp(Sess, connectOk) IN
         /\ Install(r.s)
         /\ last' = [op |-> "AcquireUnmanagedConnection", conn |-> r.conn,
                     err |-> r.err, pre |-> 0, conns |-> {}, got |-> {}]
    /\ UNCHANGED <<mutex, socketFailed, config>>
    /\ UNCHANGED userVars

\* A round trip on a borrowed connection hits a socket error:
\* the flag is raised and stays.
SocketFail ==
    /\ \E c \in ConnIds :
         /\ c \in pool.occupied /\ c \notin socketFailed
         /\ socketFailed' = socketFailed \cup {c}
         /\ last' = [op |-> "SocketFail", conn |-> c, err |-> "none",
                     pre |-> Share(sharedConnections, c), conns |-> {}, got |-> {}]
    /\ UNCHANGED <<pool, sharedConnections, startNewTransaction,
                   poormansRollbackFail, poolFailures, mutex, config>>
    /\ UNCHANGED userVars

\* ConnectionTotal
ConnectionTotal == PoolOpenConnections(pool)

vars == <<sessVars, userVars>>

NoCallers == [i \in {} |-> 0]

NoTransfer == [kind |-> "none"]

NoTasks == [i \in {} |-> 0]

Init ==
    /\ SessInit(InitialCap, MaxIdle, MaxCap)
    /\ callers = NoCallers
    /\ xfer = NoTransfer
    /\ tasks = NoTasks
    /\ errChan = <<>>

Next ==
    \/ AcquireConnection
    \/ AcquireConnectionsMulti
    \/ ReturnConnection
    \/ DiscardConnection
    \/ AcquireUnmanagedConnection
    \/ SocketFail

Spec == Init /\ [][Next]_vars

\* ------------------------------------------ two callers, one connection
\* Two callers each call AcquireConnection and then ReturnConnection on a
\* session whose pool holds one idle connection and has a capacity of one.
CallerIds == {1, 2}

Other(i) == CHOOSE j \in CallerIds : j /= i

InitTwoCallers ==
    /\ \E initialCap \in {1, 2} : SessInit(initialCap, 1, 1)
    /\ Len(pool.idle) = 1
    /\ callers = [i \in CallerIds |->
                    [pc |-> "start", conn |-> NoConn, share |-> 0,
                     overlap |-> FALSE]]
    /\ xfer = NoTransfer
    /\ tasks = NoTasks
    /\ errChan = <<>>

CallerAcquire(i) ==
    /\ callers[i].pc = "start"
    /\ mutex = "free"
    /\ \E connectOk \in BOOLEAN, rollbackOk \in BOOLEAN :
         \E pick \in SharePicks(Sess, connectOk, rollbackOk) :
           LET r == AcquireConnectionOp(Sess, connectOk, rollbackOk, pick) IN
           /\ Install(r.s)
           /\ last' = [op |-> "AcquireConnection", conn |-> r.conn,
                       err |-> r.err, pre |-> Share(sharedConnections, r.conn),
                       conns |-> {},
                       got |-> AcquireTrace(Sess, connectOk, rollbackOk)]
           /\ callers' = [callers EXCEPT ![i] =
                  IF r.err = "none"
                  THEN [pc |-> "holding", conn |-> r.conn,
                        share |-> r.s.shared[r.conn],
                        overlap |-> callers[Other(i)].pc = "holding"]
                  ELSE [@ EXCEPT !.pc = "failed"]]
    /\ UNCHANGED <<mutex, socketFailed, config, xfer, tasks, errChan>>

CallerReturn(i) ==
    /\ callers[i].pc = "holding"
    /\ mutex = "free"
    /\ Install(ReturnConnectionOp(Sess, callers[i].conn))
    /\ last' = [op |-> "ReturnConnection", conn |-> callers[i].conn,
                err |-> "none",
                pre |-> Share(sharedConnections, callers[i].conn),
                conns |-> {}, got |-> {}]
    /\ callers' = [callers EXCEPT ![i].pc = "done"]
    /\ UNCHANGED <<mutex, socketFailed, config, xfer, tasks, errChan>>

NextTwoCallers ==
    \/ \E i \in CallerIds : CallerAcquire(i)
    \/ \E i \in CallerIds : CallerReturn(i)

SpecTwoCallers == InitTwoCallers /\ [][NextTwoCallers]_vars

\* ----------------------------------------------------- transfer engine
\* A session operation run by a transfer: the session's fields change, the
\* rest of the session's variables stay (`last` records the operations of
\* the session's direct callers only).
SessionStep(s) ==
    /\ mutex = "free"
    /\ Install(s)
    /\ UNCHANGED <<mutex, socketFailed, config, last, callers>>

NoSessionStep == UNCHANGED sessVars /\ UNCHANGED callers

Min(a, b) == IF a < b THEN a ELSE b
Max(a, b) == IF a > b THEN a ELSE b

\* lengthPerThread: fileLength / numTasks, one more when there is a rest.
LengthPerThread_Floor(fileLength, numTasks) == fileLength \div numTasks

LengthPerThread(fileLength, numTasks) ==
    (fileLength \div numTasks)
        + (IF fileLength % numTasks > 0 THEN 1 ELSE 0)

\* util.GetNumTasksForParallelTransfer: small files one task, larger ones
\* more, up to a cap; non-decreasing in the size.
GetNumTasksForParallelTransfer(fileLength) ==
    IF fileLength <= AutoSingleTaskLen THEN 1 ELSE MaxTasks

\* numTasks := taskNum; if numTasks <= 0 { numTasks = GetNumTasks...(size) }
NumTasks(taskNum, fileLength) ==
    IF taskNum <= 0 THEN GetNumTasksForParallelTransfer(fileLength) ELSE taskNum

\* An error in errChan: the task that sent it, what failed, and its place in
\* the order of the sends.
NoError == [task |-> -1, what |-> "none", seq |-> 0]

\* `errChan <- err` by task i: the channel holds numTasks errors; a send to
\* a full channel blocks, and nothing receives before all tasks are done.
SendOrBlock(i, what, afterPc, t) ==
    IF Len(errChan) < xfer.numTasks
    THEN /\ errChan' = Append(errChan, [task |-> i, what |-> what,
                                        seq |-> Len(errChan) + 1])
         /\ tasks' = [tasks EXCEPT ![i] = [t EXCEPT !.pc = afterPc,
                                                    !.sent = t.sent + 1]]
    ELSE /\ errChan' = errChan
         /\ tasks' = [tasks EXCEPT ![i] = [t EXCEPT !.pc = "blocked"]]

\* ------------------------------------------------ UploadDataObjectParallel
\* The progress callback as its consumer sees it: the processed value of its
\* first invocation and the largest processed value of any invocation
\* (-1: not invoked yet).
NoCallback == [first |-> -1, max |-> -1]

\* callback(processed, fileLength)
Callback(cb, processed) ==
    [first |-> IF cb.first = -1 THEN processed ELSE cb.first,
     max |-> Max(cb.max, processed)]

UploadInputs ==
    [support : BOOLEAN, fileLength : 0..MaxFileLen, taskNum : 0..MaxTasks,
     replicate : BOOLEAN]

NewUpload(in) ==
    [kind |-> "upload", pc |-> "start", support |-> in.support,
     fileLength |-> in.fileLength, taskNum |-> in.taskNum,
     replicate |-> in.replicate, numTasks |-> 0, path |-> "none",
     conn |-> NoConn, primary |-> "none", primaryCloses |-> 0,
     closeOk |-> FALSE, error |-> NoError,
     handle |-> "none", wrote |-> "none",
     replicated |-> FALSE, result |-> "none", total |-> 0, cb |-> NoCallback,
     acquired |-> {}, returned |-> {}, unmanaged |-> {}, discarded |-> {}]

\* UploadDataObjectFromBuffer: the buffer's length, the replicate flag.
BufferInputs == [fileLength : 0..MaxFileLen, replicate : BOOLEAN]

NewBufferUpload(in) ==
    [NewUpload([support |-> FALSE, fileLength |-> in.fileLength,
                taskNum |-> 0, replicate |-> in.replicate])
       EXCEPT !.kind = "buffer", !.pc = "bufferAcquire", !.path = "serial"]

InitUpload ==
    /\ \E maxCap \in {MaxCap, MaxTasks + 1} : SessInit(0, MaxIdle, maxCap)
    /\ callers = NoCallers
    /\ \/ \E in \in UploadInputs : xfer = NewUpload(in)
       \/ \E in \in BufferInputs : xfer = NewBufferUpload(in)
    /\ tasks = NoTasks
    /\ errChan = <<>>

\* The checks that send UploadDataObjectParallel to the serial upload.
UploadPath_IgnoresEmpty(support, fileLength, taskNum) ==
    IF ~support THEN "serial"
    ELSE IF NumTasks(taskNum, fileLength) = 1 THEN "serial"
    ELSE "parallel"

UploadPath(support, fileLength, taskNum) ==
    IF ~support THEN "serial"
    ELSE IF fileLength = 0 THEN "serial"
    ELSE IF NumTasks(taskNum, fileLength) = 1 THEN "serial"
    ELSE "parallel"

UploadStart ==
    /\ xfer.kind = "upload" /\ xfer.pc = "start"
    /\ \E statOk \in BOOLEAN :
         IF ~xfer.support
         THEN xfer' = [xfer EXCEPT !.path = "serial", !.pc = "serialStat"]
         ELSE IF ~statOk
         THEN xfer' = [xfer EXCEPT !.pc = "done", !.result = "err"]
         ELSE IF UploadPath(xfer.support, xfer.fileLength, xfer.taskNum) = "serial"
         THEN xfer' = [xfer EXCEPT !.path = "serial", !.pc = "serialStat"]
         ELSE xfer' = [xfer EXCEPT !.path = "parallel", !.pc = "acquirePrimary",
                         !.numTasks = NumTasks(xfer.taskNum, xfer.fileLength)]
    /\ UNCHANGED <<tasks, errChan>>
    /\ NoSessionStep

\* ---- UploadDataObject, the serial upload
SerialStat ==
    /\ xfer.kind = "upload" /\ xfer.pc = "serialStat"
    /\ \E statOk \in BOOLEAN :
         xfer' = IF statOk THEN [xfer EXCEPT !.pc = "serialAcquire"]
                 ELSE [xfer EXCEPT !.pc = "done", !.result = "err"]
    /\ UNCHANGED <<tasks, errChan>>
    /\ NoSessionStep

SerialAcquire ==
    /\ xfer.kind = "upload" /\ xfer.pc = "serialAcquire"
    /\ \E connectOk \in BOOLEAN, rollbackOk \in BOOLEAN :
         \E pick \in SharePicks(Sess, connectOk, rollbackOk) :
           LET r == AcquireConnectionOp(Sess, connectOk, rollbackOk, pick) IN
           /\ SessionStep(r.s)
           /\ xfer' = IF r.err = "none"
                      THEN [xfer EXCEPT !.pc = "serialOpen", !.conn = r.conn,
                                        !.acquired = @ \cup {r.conn}]
                      ELSE [xfer EXCEPT !.pc = "done", !.result = "err"]
    /\ UNCHANGED <<tasks, errChan>>

\* os.OpenFile of the local file, then CreateDataObject.
SerialOpen ==
    /\ xfer.kind = "upload" /\ xfer.pc = "serialOpen"
    /\ \E connected \in BOOLEAN, openOk \in BOOLEAN, createOk \in BOOLEAN :
         xfer' = IF connected /\ openOk /\ createOk
                 THEN [xfer EXCEPT !.pc = "serialCopy", !.handle = "open",
                                   !.cb = Callback(@, 0)]
                 ELSE [xfer EXCEPT !.pc = "serialReturn", !.result = "err"]
    /\ UNCHANGED <<tasks, errChan>>
    /\ NoSessionStep

\* Whether the replication is issued: asked for, and no write error.
ReplicateIssued_Always(writeOk, replicate) == replicate

ReplicateIssued(writeOk, replicate) == writeOk /\ replicate

\* The bytes a copy can have written when it ends: all of them, or fewer
\* when a read or a write failed.
WrittenWhen(writeOk, fileLength) ==
    IF writeOk THEN {fileLength} ELSE 0..Max(0, fileLength - 1)

\* The copy loop (a callback after every chunk written), CloseDataObject,
\* then the replication.
SerialCopy ==
    /\ xfer.kind = "upload" /\ xfer.pc = "serialCopy"
    /\ \E writeOk \in BOOLEAN, replOk \in BOOLEAN :
       \E written \in WrittenWhen(writeOk, xfer.fileLength) :
         xfer' = [xfer EXCEPT
                    !.pc = "serialReturn",
                    !.handle = "closed",
                    !.wrote = IF writeOk THEN "ok" ELSE "err",
                    !.total = written,
                    !.cb = IF written > 0 THEN Callback(@, written) ELSE @,
                    !.replicated = ReplicateIssued(writeOk, xfer.replicate),
                    !.result = IF writeOk /\ (~xfer.replicate \/ replOk)
                               THEN "ok" ELSE "err"]
    /\ UNCHANGED <<tasks, errChan>>
    /\ NoSessionStep

\* ---- UploadDataObjectFromBuffer
BufferAcquire ==
    /\ xfer.kind = "buffer" /\ xfer.pc = "bufferAcquire"
    /\ \E connectOk \in BOOLEAN, rollbackOk \in BOOLEAN :
         \E pick \in SharePicks(Sess, connectOk, rollbackOk) :
           LET r == AcquireConnectionOp(Sess, connectOk, rollbackOk, pick) IN
           /\ SessionStep(r.s)
           /\ xfer' = IF r.err = "none"
                      THEN [xfer EXCEPT !.pc = "bufferCreate", !.conn = r.conn,
                                        !.acquired = @ \cup {r.conn}]
                      ELSE [xfer EXCEPT !.pc = "done", !.result = "err"]
    /\ UNCHANGED <<tasks, errChan>>

\* The connection check, CreateDataObject, the first callback.
BufferCreate ==
    /\ xfer.kind = "buffer" /\ xfer.pc = "bufferCreate"
    /\ \E connected \in BOOLEAN, createOk \in BOOLEAN :
         xfer' = IF connected /\ createOk
                 THEN [xfer EXCEPT !.pc = "bufferWrite", !.handle = "open",
                                   !.cb = Callback(@, 0)]
                 ELSE [xfer EXCEPT !.pc = "serialReturn", !.result = "err"]
    /\ UNCHANGED <<tasks, errChan>>
    /\ NoSessionStep

\* The one write of the whole buffer, the callback with (fileLength,
\* fileLength) whatever the write did, CloseDataObject, the replication.
BufferWrite ==
    /\ xfer.kind = "buffer" /\ xfer.pc = "bufferWrite"
    /\ \E writeOk \in BOOLEAN, replOk \in BOOLEAN :
       \E written \in WrittenWhen(writeOk, xfer.fileLength) :
         xfer' = [xfer EXCEPT
                    !.pc = "serialReturn",
                    !.handle = "closed",
                    !.wrote = IF writeOk THEN "ok" ELSE "err",
                    !.total = written,
                    !.cb = Callback(@, xfer.fileLength),
                    !.replicated = ReplicateIssued(writeOk, xfer.replicate),
                    !.result = IF writeOk /\ (~xfer.replicate \/ replOk)
                               THEN "ok" ELSE "err"]
    /\ UNCHANGED <<tasks, errChan>>
    /\ NoSessionStep

\* defer session.ReturnConnection(conn), of both serial uploads
SerialReturn ==
    /\ xfer.kind \in {"upload", "buffer"} /\ xfer.pc = "serialReturn"
    /\ SessionStep(ReturnConnectionOp(Sess, xfer.conn))
    /\ xfer' = [xfer EXCEPT !.pc = "done", !.returned = @ \cup {xfer.conn}]
    /\ UNCHANGED <<tasks, errChan>>

\* ---- the parallel upload
UploadAcquirePrimary ==
    /\ xfer.kind = "upload" /\ xfer.pc = "acquirePrimary"
    /\ \E connectOk \in BOOLEAN :
         LET r == AcquireUnmanagedConnectionOp(Sess, connectOk) IN
         /\ SessionStep(r.s)
         /\ xfer' = IF r.err = "none"
                    THEN [xfer EXCEPT !.pc = "openPrimary", !.conn = r.conn,
                                      !.unmanaged = @ \cup {r.conn}]
                    ELSE [xfer EXCEPT !.pc = "done", !.result = "err"]
    /\ UNCHANGED <<tasks, errChan>>

NewUploadTask(offset, length) ==
    [pc |-> "acquire", conn |-> NoConn, offset |-> offset, length |-> length,
     remain |-> length, written |-> {}, handle |-> "none",
     closedBy |-> "none", sent |-> 0]

\* OpenDataObjectForPutParallel, GetReplicaAccessInfo, then one goroutine
\* per task: task i at offset i * lengthPerThread, lengthPerThread long.
UploadOpenPrimary ==
    /\ xfer.kind = "upload" /\ xfer.pc = "openPrimary"
    /\ \E openOk \in BOOLEAN, infoOk \in BOOLEAN :
         IF ~openOk
         THEN /\ xfer' = [xfer EXCEPT !.pc = "discardPrimary", !.result = "err"]
              /\ tasks' = tasks
         ELSE IF ~infoOk
         THEN /\ xfer' = [xfer EXCEPT !.pc = "discardPrimary", !.result = "err",
                            !.primary = "closed", !.primaryCloses = @ + 1]
              /\ tasks' = tasks
         ELSE /\ xfer' = [xfer EXCEPT !.pc = "wait", !.primary = "open",
                                      !.cb = Callback(@, 0)]
              /\ tasks' = [i \in 0..(xfer.numTasks - 1) |->
                             NewUploadTask(
                               i * LengthPerThread(xfer.fileLength, xfer.numTasks),
                               LengthPerThread(xfer.fileLength, xfer.numTasks))]
    /\ UNCHANGED errChan
    /\ NoSessionStep

UploadTaskAcquire(i) ==
    /\ xfer.kind = "upload" /\ tasks[i].pc = "acquire"
    /\ \E connectOk \in BOOLEAN :
         LET r == AcquireUnmanagedConnectionOp(Sess, connectOk) IN
         /\ SessionStep(r.s)
         /\ IF r.err = "none"
            THEN /\ tasks' = [tasks EXCEPT ![i].pc = "openReplica",
                                           ![i].conn = r.conn]
                 /\ xfer' = [xfer EXCEPT !.unmanaged = @ \cup {r.conn}]
                 /\ errChan' = errChan
            ELSE /\ SendOrBlock(i, "connection", "done", tasks[i])
                 /\ xfer' = xfer

\* OpenDataObjectWithReplicaToken
UploadTaskOpenReplica(i) ==
    /\ xfer.kind = "upload" /\ tasks[i].pc = "openReplica"
    /\ \E openOk \in BOOLEAN :
         IF openOk
         THEN /\ tasks' = [tasks EXCEPT ![i].pc = "seek", ![i].handle = "open"]
              /\ errChan' = errChan
         ELSE SendOrBlock(i, "open", "discard", tasks[i])
    /\ UNCHANGED xfer
    /\ NoSessionStep

\* os.OpenFile of the local file, then SeekDataObject to the task offset.
UploadTaskSeek(i) ==
    /\ xfer.kind = "upload" /\ tasks[i].pc = "seek"
    /\ \E localOk \in BOOLEAN, seekOk \in BOOLEAN :
         IF localOk /\ seekOk
         THEN /\ tasks' = [tasks EXCEPT ![i].pc =
                             IF tasks[i].remain > 0 THEN "copy" ELSE "closeReplica"]
              /\ errChan' = errChan
         ELSE SendOrBlock(i, "seek", "closeReplica", tasks[i])
    /\ UNCHANGED xfer
    /\ NoSessionStep

\* f.ReadAt(buffer[:bufferLen], pos) on a file of fileLength bytes.
ReadAtLen(fileLength, pos, bufferLen) == Max(0, Min(bufferLen, fileLength - pos))

\* One round of the copy loop: read a chunk at the task's position, write
\* it to the replica handle, go on until taskRemain is 0 or the file ends.
UploadTaskCopy(i) ==
    /\ xfer.kind = "upload" /\ tasks[i].pc = "copy"
    /\ LET t == tasks[i]
           bufferLen == Min(BufferSize, t.remain)
           pos == t.offset + (t.length - t.remain)
           bytesRead == ReadAtLen(xfer.fileLength, pos, bufferLen)
           eof == bytesRead < bufferLen
           t2 == [t EXCEPT !.written = @ \cup (pos..(pos + bytesRead - 1)),
                           !.remain = @ - bytesRead]
       IN \E readOk \in BOOLEAN, writeOk \in BOOLEAN :
            IF ~readOk
            THEN SendOrBlock(i, "read", "closeReplica", t) /\ xfer' = xfer
            ELSE IF bytesRead > 0 /\ ~writeOk
            THEN SendOrBlock(i, "write", "closeReplica", t) /\ xfer' = xfer
            ELSE /\ tasks' = [tasks EXCEPT ![i] =
                                [t2 EXCEPT !.pc = IF eof \/ t2.remain <= 0
                                                  THEN "closeReplica"
                                                  ELSE "copy"]]
                 /\ errChan' = errChan
                 /\ xfer' = IF bytesRead > 0
                            THEN [xfer EXCEPT
                                    !.total = @ + bytesRead,
                                    !.cb = Callback(@, xfer.total + bytesRead)]
                            ELSE xfer
    /\ NoSessionStep

\* The deferred CloseDataObjectReplica; its error is enqueued as well.
UploadTaskCloseReplica(i) ==
    /\ xfer.kind = "upload" /\ tasks[i].pc = "closeReplica"
    /\ \E closeOk \in BOOLEAN :
         LET t == [tasks[i] EXCEPT !.handle = "closed", !.closedBy = "replica"] IN
         IF closeOk
         THEN /\ tasks' = [tasks EXCEPT ![i] = [t EXCEPT !.pc = "discard"]]
              /\ errChan' = errChan
         ELSE SendOrBlock(i, "close", "discard", t)
    /\ UNCHANGED xfer
    /\ NoSessionStep

\* defer session.DiscardConnection(taskConn), then taskWaitGroup.Done()
UploadTaskDiscard(i) ==
    /\ xfer.kind = "upload" /\ tasks[i].pc = "discard"
    /\ SessionStep(DiscardConnectionOp(Sess, tasks[i].conn))
    /\ tasks' = [tasks EXCEPT ![i].pc = "done"]
    /\ xfer' = [xfer EXCEPT !.discarded = @ \cup {tasks[i].conn}]
    /\ UNCHANGED errChan

\* taskWaitGroup.Wait() returns when every task has called Done().
AllTasksDone_NoWait == TRUE

AllTasksDone == \A i \in DOMAIN tasks : tasks[i].pc = "done"

\* Mutant: the orchestrator returns the error sent last.
JoinError_Last(q) == q[Len(q)]

\* return <-errChan
JoinError(q) == Head(q)

\* taskWaitGroup.Wait() is over: close the primary handle, take the first
\* error if there is one, replicate otherwise.
UploadJoin ==
    /\ xfer.kind = "upload" /\ xfer.pc = "wait"
    /\ AllTasksDone
    /\ \E closeOk \in BOOLEAN, replOk \in BOOLEAN :
         IF Len(errChan) > 0
         THEN /\ xfer' = [xfer EXCEPT !.pc = "discardPrimary", !.result = "err",
                            !.primary = "closed", !.primaryCloses = @ + 1,
                            !.closeOk = closeOk,
                            !.error = JoinError(errChan)]
              /\ errChan' = Tail(errChan)
         ELSE /\ xfer' = [xfer EXCEPT
                            !.pc = "discardPrimary",
                            !.primary = "closed", !.primaryCloses = @ + 1,
                            !.closeOk = closeOk,
                            !.replicated = closeOk /\ xfer.replicate,
                            !.result = IF closeOk /\ (~xfer.replicate \/ replOk)
                                       THEN "ok" ELSE "err"]
              /\ errChan' = errChan
    /\ UNCHANGED tasks
    /\ NoSessionStep

\* defer session.DiscardConnection(conn)
UploadDiscardPrimary ==
    /\ xfer.kind = "upload" /\ xfer.pc = "discardPrimary"
    /\ SessionStep(DiscardConnectionOp(Sess, xfer.conn))
    /\ xfer' = [xfer EXCEPT !.pc = "done", !.discarded = @ \cup {xfer.conn}]
    /\ UNCHANGED <<tasks, errChan>>

NextUpload ==
    \/ BufferAcquire
    \/ BufferCreate
    \/ BufferWrite
    \/ UploadStart
    \/ SerialStat
    \/ SerialAcquire
    \/ SerialOpen
    \/ SerialCopy
    \/ SerialReturn
    \/ UploadAcquirePrimary
    \/ UploadOpenPrimary
    \/ \E i \in DOMAIN tasks : UploadTaskAcquire(i)
    \/ \E i \in DOMAIN tasks : UploadTaskOpenReplica(i)
    \/ \E i \in DOMAIN tasks : UploadTaskSeek(i)
    \/ \E i \in DOMAIN tasks : UploadTaskCopy(i)
    \/ \E i \in DOMAIN tasks : UploadTaskCloseReplica(i)
    \/ \E i \in DOMAIN tasks : UploadTaskDiscard(i)
    \/ UploadJoin
    \/ UploadDiscardPrimary

SpecUpload == InitUpload /\ [][NextUpload]_vars

\* The goroutines of an upload are scheduled: a step that can be taken is
\* taken in the end.
SpecUploadFair == SpecUpload /\ WF_vars(NextUpload)

\* --------------------------------------------- DownloadDataObjectParallel
\* (and DownloadDataObjectParallelResumable, which is the same code with the
\* transfer status file, the journal, around it)

\* The remote object's content: the byte at position k.
RemoteByte(k) == k + 1

\* The journal of a resumable download: the status file, the task count of
\* its header and the status map (task offset |-> completed length, the last
\* entry for the offset) it holds.
NoJournal ==
    [state |-> "none", exists |-> FALSE, closes |-> 0, threads |-> 0,
     status |-> EmptyMap]

\* GetOrNewDataObjectTransferStatusLocal: the journal found next to the
\* local file, or a new one for the task count asked for.
GetOrNewDataObjectTransferStatusLocal(j, numTasks) ==
    IF j.exists THEN j ELSE [NoJournal EXCEPT !.threads = numTasks]

\* Mutant: the task count asked for is kept.
ResumableNumTasks_Requested(j, numTasks) == numTasks

\* numTasks = transferStatusLocal.status.Threads
ResumableNumTasks(j, numTasks) == j.threads

\* Mutant: the entry holds the length of the chunk.
CompletedLength_Chunk(taskLength, taskRemain, bytesRead) == bytesRead

\* CompletedLength of the entry written after a chunk.
CompletedLength(taskLength, taskRemain, bytesRead) ==
    (taskLength - taskRemain) + bytesRead

CreateStatusFile(j) == [j EXCEPT !.state = "open", !.exists = TRUE]

CloseStatusFile(j) == [j EXCEPT !.state = "closed", !.closes = @ + 1]

DeleteStatusFile(j) == [j EXCEPT !.exists = FALSE]

WriteStatus(j, startOffset, completedLength) ==
    IF j.state = "open"
    THEN [j EXCEPT !.status = MapPut(j.status, startOffset, completedLength)]
    ELSE j

DownloadInputs == [fileLength : 0..MaxFileLen, taskNum : 0..MaxTasks]

NewDownload(in, resumable) ==
    [kind |-> "download", pc |-> "start", resumable |-> resumable,
     fileLength |-> in.fileLength, taskNum |-> in.taskNum,
     numTasks |-> 0, path |-> "none", connections |-> <<>>,
     local |-> EmptyMap, journal |-> NoJournal, result |-> "none",
     total |-> 0, cb |-> NoCallback, error |-> NoError, prior |-> EmptyMap]

InitTransfer(resumable) ==
    /\ \E maxCap \in {1, MaxCap} : SessInit(0, MaxIdle, maxCap)
    /\ ~config.anonymous
    /\ callers = NoCallers
    /\ \E in \in DownloadInputs : xfer = NewDownload(in, resumable)
    /\ tasks = NoTasks
    /\ errChan = <<>>

InitDownload == InitTransfer(FALSE)

InitResumable == InitTransfer(TRUE)

\* numTasks: the task count asked for or derived, at most the configured
\* maximum number of connections.
DownloadNumTasks(taskNum, fileLength, connectionMax) ==
    Min(NumTasks(taskNum, fileLength), connectionMax)

\* The head of the download: the empty object, the task count, os.Create.
DownloadStart ==
    /\ xfer.kind = "download" /\ xfer.pc = "start" /\ ~xfer.resumable
    /\ \E createOk \in BOOLEAN :
         IF ~createOk
         THEN xfer' = [xfer EXCEPT !.pc = "done", !.result = "err"]
         ELSE IF xfer.fileLength = 0
         THEN xfer' = [xfer EXCEPT !.pc = "done", !.result = "ok"]
         ELSE xfer' = [xfer EXCEPT
                         !.pc = "acquire", !.path = "parallel",
                         !.cb = Callback(@, 0),
                         !.numTasks = DownloadNumTasks(xfer.taskNum,
                                         xfer.fileLength, pool.maxCap)]
    /\ UNCHANGED <<tasks, errChan>>
    /\ NoSessionStep

\* The head of the resumable download: the journal is read or made, its
\* file created and its header written, then the local file is opened.
\* prior keeps the status map as it was read.
ResumableStart ==
    /\ xfer.kind = "download" /\ xfer.pc = "start" /\ xfer.resumable
    /\ \E createOk \in BOOLEAN, statusOk \in BOOLEAN, statusFileOk \in BOOLEAN,
          headerOk \in BOOLEAN, openOk \in BOOLEAN :
         LET requested == DownloadNumTasks(xfer.taskNum, xfer.fileLength,
                                           pool.maxCap)
             status == GetOrNewDataObjectTransferStatusLocal(xfer.journal,
                                                             requested)
         IN
         IF xfer.fileLength = 0
         THEN xfer' = [xfer EXCEPT !.pc = "done",
                         !.result = IF createOk THEN "ok" ELSE "err"]
         ELSE IF ~statusOk \/ ~statusFileOk
         THEN xfer' = [xfer EXCEPT !.pc = "done", !.result = "err"]
         ELSE IF ~headerOk
         THEN xfer' = [xfer EXCEPT
                         !.pc = "done", !.result = "err",
                         !.journal = CloseStatusFile(CreateStatusFile(status))]
         ELSE IF ~openOk
         THEN xfer' = [xfer EXCEPT
                         !.pc = "done", !.result = "err",
                         !.journal = CreateStatusFile(status)]
         ELSE xfer' = [xfer EXCEPT
                         !.pc = "acquire", !.path = "parallel",
                         !.cb = Callback(@, 0),
                         !.journal = CreateStatusFile(status),
                         !.prior = status.status,
                         !.numTasks = ResumableNumTasks(status, requested)]
    /\ UNCHANGED <<tasks, errChan>>
    /\ NoSessionStep

\* The orders in which `for conn := range connections` can list a set.
Orderings(S) ==
    {q \in [1..Cardinality(S) -> S] : \A c \in S : \E i \in DOMAIN q : q[i] = c}

\* Mutant: the journal's entry is not looked at.
TaskLastOffset_FromStart(j, resumable, taskOffset) == taskOffset

\* lastOffset as the task starts: the task offset or, in a resumable
\* download, the place the journal's entry for the task offset gives.
TaskLastOffset(j, resumable, taskOffset) ==
    IF resumable /\ taskOffset \in DOMAIN j.status
    THEN taskOffset + j.status[taskOffset]
    ELSE taskOffset

\* downloadTask as it starts: taskConn := connections[taskID] is an index
\* out of range when the list is shorter than the task count.
NewDownloadTask(taskID, taskOffset, taskLength, connections, j, resumable) ==
    LET lastOffset == TaskLastOffset(j, resumable, taskOffset) IN
    [pc |-> IF taskID + 1 <= Len(connections) THEN "open" ELSE "panic",
     conn |-> IF taskID + 1 <= Len(connections)
              THEN connections[taskID + 1] ELSE NoConn,
     offset |-> taskOffset, length |-> taskLength,
     remain |-> taskLength - (lastOffset - taskOffset),
     lastOffset |-> lastOffset, handlePos |-> 0, written |-> {},
     retried |-> FALSE, prevConn |-> NoConn, resumedAt |-> 0, sent |-> 0]

\* session.AcquireConnectionsMulti(numTasks), then one goroutine per task.
DownloadAcquire ==
    /\ xfer.kind = "download" /\ xfer.pc = "acquire"
    /\ mutex = "free"
    /\ \E env \in MultiEnvs(xfer.numTasks) :
         \E rest \in MultiRests(MultiShareMap(Sess, xfer.numTasks, env),
                                MultiNeed(Sess, xfer.numTasks, env)) :
           LET r == AcquireConnectionsMultiOp(Sess, xfer.numTasks, env, rest)
               L == LengthPerThread(xfer.fileLength, xfer.numTasks)
           IN /\ Install(r.s)
              /\ mutex' = IF r.hung THEN "held" ELSE "free"
              /\ IF r.hung
                 THEN /\ xfer' = [xfer EXCEPT !.pc = "hung"]
                      /\ tasks' = tasks
                 ELSE \E q \in Orderings(r.conns) :
                        /\ xfer' = [xfer EXCEPT !.pc = "wait", !.connections = q]
                        /\ tasks' = [i \in 0..(xfer.numTasks - 1) |->
                                       NewDownloadTask(i, i * L, L, q,
                                           xfer.journal, xfer.resumable)]
    /\ UNCHANGED <<socketFailed, config, last, callers, errChan>>

\* os.OpenFile of the local file by the task; a resumable download then
\* counts the bytes the journal says are there already, with a callback.
DownloadTaskOpen(i) ==
    /\ xfer.kind = "download" /\ tasks[i].pc = "open"
    /\ LET resumed == tasks[i].lastOffset - tasks[i].offset IN
       \E openOk \in BOOLEAN :
         IF openOk
         THEN /\ tasks' = [tasks EXCEPT ![i].pc = "trial"]
              /\ errChan' = errChan
              /\ xfer' = IF resumed > 0
                         THEN [xfer EXCEPT !.total = @ + resumed,
                                 !.cb = Callback(@, xfer.total + resumed)]
                         ELSE xfer
         ELSE SendOrBlock(i, "open", "finish", tasks[i]) /\ xfer' = xfer
    /\ NoSessionStep

\* Where the trial seeks the remote handle to before it copies.
TrialSeekPos_TaskOffset(t) == t.offset

TrialSeekPos(t) == IF t.lastOffset > 0 THEN t.lastOffset ELSE 0

\* The head of a trial: OpenDataObject, then the seek of the handle and of
\* the local file to lastOffset.  A round trip on a connection whose socket
\* has failed fails; a round trip can make the socket fail.
DownloadTaskTrial(i) ==
    /\ xfer.kind = "download" /\ tasks[i].pc = "trial"
    /\ LET t == tasks[i] IN
       \E outcome \in {"ok", "socket", "other"} :
         IF t.conn \in socketFailed \/ outcome = "socket"
         THEN /\ socketFailed' = socketFailed \cup {t.conn}
              /\ tasks' = [tasks EXCEPT ![i].pc = "failed"]
         ELSE IF outcome = "other"
         THEN /\ socketFailed' = socketFailed
              /\ tasks' = [tasks EXCEPT ![i].pc = "failed"]
         ELSE /\ socketFailed' = socketFailed
              /\ tasks' = [tasks EXCEPT ![i] =
                             [t EXCEPT !.handlePos = TrialSeekPos(t),
                                       !.pc = IF t.remain > 0 THEN "copy"
                                              ELSE "finish"]]
    /\ UNCHANGED <<pool, sharedConnections, startNewTransaction,
                   poormansRollbackFail, poolFailures, mutex, config, last>>
    /\ UNCHANGED <<callers, xfer, errChan>>

\* The local offset a chunk is written at.
WritePos(t) == t.offset + (t.length - t.remain)

\* One round of the copy loop of a trial: read a chunk from the handle,
\* write it to the local file, note it in the journal.
DownloadTaskCopy(i) ==
    /\ xfer.kind = "download" /\ tasks[i].pc = "copy"
    /\ LET t == tasks[i]
           bufferLen == Min(BufferSize, t.remain)
           full == ReadAtLen(xfer.fileLength, t.handlePos, bufferLen)
       IN \E outcome \in {"ok", "socket", "other"}, writeOk \in BOOLEAN :
          \E bytesRead \in (IF t.conn \in socketFailed \/ outcome = "other"
                            THEN {0}
                            ELSE IF outcome = "socket" THEN {0, full}
                            ELSE {full}) :
            LET failedSocket == t.conn \in socketFailed \/ outcome = "socket"
                eof == ~failedSocket /\ outcome = "ok" /\ bytesRead < bufferLen
                pos == WritePos(t)
                t2 == [t EXCEPT
                         !.written = @ \cup (pos..(pos + bytesRead - 1)),
                         !.remain = @ - bytesRead,
                         !.lastOffset = @ + bytesRead,
                         !.handlePos = @ + bytesRead]
                local2 == [k \in (DOMAIN xfer.local) \cup (pos..(pos + bytesRead - 1)) |->
                             IF k \in pos..(pos + bytesRead - 1)
                             THEN RemoteByte(t.handlePos + (k - pos))
                             ELSE xfer.local[k]]
                journal2 == IF xfer.resumable /\ bytesRead > 0
                            THEN WriteStatus(xfer.journal, t.offset,
                                     CompletedLength(t.length, t.remain,
                                                     bytesRead))
                            ELSE xfer.journal
            IN /\ socketFailed' = IF failedSocket
                                  THEN socketFailed \cup {t.conn}
                                  ELSE socketFailed
               /\ IF bytesRead > 0 /\ ~writeOk
                  THEN /\ tasks' = [tasks EXCEPT ![i].pc = "failed"]
                       /\ xfer' = xfer
                  ELSE /\ xfer' = [xfer EXCEPT
                                    !.local = local2,
                                    !.journal = journal2,
                                    !.total = @ + bytesRead,
                                    !.cb = IF bytesRead > 0
                                           THEN Callback(@, xfer.total + bytesRead)
                                           ELSE @]
                       /\ tasks' = [tasks EXCEPT ![i] =
                            [t2 EXCEPT !.pc =
                               IF failedSocket \/ outcome = "other" THEN "failed"
                               ELSE IF eof THEN "finish"
                               ELSE "check"]]
    /\ UNCHANGED <<pool, sharedConnections, startNewTransaction,
                   poormansRollbackFail, poolFailures, mutex, config, last>>
    /\ UNCHANGED <<callers, errChan>>

\* The end of a round: with an error of another task in errChan the trial
\* returns "stop running as other tasks failed", else the loop goes on while
\* taskRemain > 0.
DownloadTaskCheck(i) ==
    /\ xfer.kind = "download" /\ tasks[i].pc = "check"
    /\ tasks' = [tasks EXCEPT ![i].pc =
                   IF Len(errChan) > 0 THEN "stopped"
                   ELSE IF tasks[i].remain > 0 THEN "copy"
                   ELSE "finish"]
    /\ UNCHANGED <<xfer, errChan>>
    /\ NoSessionStep

\* The trial returned an error, its own or "stop running as other tasks
\* failed": with the socket-failed flag up the old connection is returned for
\* a retry, otherwise the error is enqueued and the task ends.
DownloadTaskFailed(i) ==
    /\ xfer.kind = "download" /\ tasks[i].pc \in {"failed", "stopped"}
    /\ IF tasks[i].conn \in socketFailed
       THEN /\ SessionStep(ReturnConnectionOp(Sess, tasks[i].conn))
            /\ tasks' = [tasks EXCEPT ![i].pc = "reacquire"]
            /\ errChan' = errChan
       ELSE /\ SendOrBlock(i, IF tasks[i].pc = "stopped" THEN "stopped"
                              ELSE "trial", "finish", tasks[i])
            /\ NoSessionStep
    /\ UNCHANGED xfer

\* taskConn, connErr = session.AcquireConnection(), then the next trial.
DownloadTaskReacquire(i) ==
    /\ xfer.kind = "download" /\ tasks[i].pc = "reacquire"
    /\ \E connectOk \in BOOLEAN, rollbackOk \in BOOLEAN :
         \E pick \in SharePicks(Sess, connectOk, rollbackOk) :
           LET r == AcquireConnectionOp(Sess, connectOk, rollbackOk, pick)
               t == [tasks[i] EXCEPT !.prevConn = tasks[i].conn,
                                     !.conn = r.conn]
           IN /\ SessionStep(r.s)
              /\ IF r.err = "none"
                 THEN /\ tasks' = [tasks EXCEPT ![i] =
                                     [t EXCEPT !.pc = "trial", !.retried = TRUE,
                                               !.resumedAt = t.lastOffset]]
                      /\ errChan' = errChan
                 ELSE SendOrBlock(i, "connection", "finish", t)
    /\ UNCHANGED xfer

\* The deferred function: first taskWaitGroup.Done() ...
DownloadTaskDone(i) ==
    /\ xfer.kind = "download" /\ tasks[i].pc = "finish"
    /\ tasks' = [tasks EXCEPT ![i].pc = "return"]
    /\ UNCHANGED <<xfer, errChan>>
    /\ NoSessionStep

\* ... then session.ReturnConnection(taskConn).
DownloadTaskReturn(i) ==
    /\ xfer.kind = "download" /\ tasks[i].pc = "return"
    /\ SessionStep(ReturnConnectionOp(Sess, tasks[i].conn))
    /\ tasks' = [tasks EXCEPT ![i].pc = "end"]
    /\ UNCHANGED <<xfer, errChan>>

\* The index out of range of a task ends the whole program.
DownloadPanic ==
    /\ xfer.kind = "download" /\ xfer.pc = "wait"
    /\ \E i \in DOMAIN tasks : tasks[i].pc = "panic"
    /\ xfer' = [xfer EXCEPT !.pc = "panicked", !.result = "panic"]
    /\ UNCHANGED <<tasks, errChan>>
    /\ NoSessionStep

\* taskWaitGroup.Wait() returns when every task has called Done().
AllDownloadTasksDone == \A i \in DOMAIN tasks : tasks[i].pc \in {"return", "end"}

\* The end of the download: the first error, if any; the journal of a
\* resumable download is closed, and deleted when there was no error.
DownloadJoin ==
    /\ xfer.kind = "download" /\ xfer.pc = "wait"
    /\ AllDownloadTasksDone
    /\ \E closeOk \in BOOLEAN, deleteOk \in BOOLEAN :
         IF Len(errChan) > 0
         THEN /\ xfer' = [xfer EXCEPT
                            !.pc = "done", !.result = "err",
                            !.error = JoinError(errChan),
                            !.journal = IF xfer.resumable
                                        THEN CloseStatusFile(@) ELSE @]
              /\ errChan' = Tail(errChan)
         ELSE /\ errChan' = errChan
              /\ IF ~xfer.resumable
                 THEN xfer' = [xfer EXCEPT !.pc = "done", !.result = "ok"]
                 ELSE IF ~closeOk
                 THEN xfer' = [xfer EXCEPT !.pc = "done", !.result = "err",
                                 !.journal = CloseStatusFile(@)]
                 ELSE IF ~deleteOk
                 THEN xfer' = [xfer EXCEPT !.pc = "done", !.result = "err",
                                 !.journal = CloseStatusFile(@)]
                 ELSE xfer' = [xfer EXCEPT !.pc = "done", !.result = "ok",
                                 !.journal = DeleteStatusFile(CloseStatusFile(@))]
    /\ UNCHANGED tasks
    /\ NoSessionStep

DownloadRun ==
    \/ DownloadAcquire
    \/ \E i \in DOMAIN tasks : DownloadTaskOpen(i)
    \/ \E i \in DOMAIN tasks : DownloadTaskTrial(i)
    \/ \E i \in DOMAIN tasks : DownloadTaskCopy(i)
    \/ \E i \in DOMAIN tasks : DownloadTaskCheck(i)
    \/ \E i \in DOMAIN tasks : DownloadTaskFailed(i)
    \/ \E i \in DOMAIN tasks : DownloadTaskReacquire(i)
    \/ \E i \in DOMAIN tasks : DownloadTaskDone(i)
    \/ \E i \in DOMAIN tasks : DownloadTaskReturn(i)
    \/ DownloadPanic
    \/ DownloadJoin

NextDownload == DownloadStart \/ DownloadRun

SpecDownload == InitDownload /\ [][NextDownload]_vars

\* Every step of downloadTask number i.
DownloadTaskStep(i) ==
    /\ i \in DOMAIN tasks
    /\ \/ DownloadTaskOpen(i)
       \/ DownloadTaskTrial(i)
       \/ DownloadTaskCopy(i)
       \/ DownloadTaskCheck(i)
       \/ DownloadTaskFailed(i)
       \/ DownloadTaskReacquire(i)
       \/ DownloadTaskDone(i)
       \/ DownloadTaskReturn(i)

\* A download asked to run with MaxTasks tasks on a session that allows as
\* many connections.
InitParallelDownload ==
    /\ SessInit(0, MaxIdle, MaxCap)
    /\ ~config.anonymous /\ ~config.startNewTransaction
    /\ callers = NoCallers
    /\ \E in \in DownloadInputs :
         /\ in.taskNum = MaxTasks
         /\ xfer = NewDownload(in, FALSE)
    /\ tasks = NoTasks
    /\ errChan = <<>>

\* The download with a scheduler that lets every goroutine run: each task
\* that can take a step takes one in the end, and so does the caller once
\* taskWaitGroup.Wait() can return.
SpecDownloadFair ==
    /\ InitParallelDownload
    /\ [][NextDownload]_vars
    /\ \A i \in 0..(MaxTasks - 1) : WF_vars(DownloadTaskStep(i))
    /\ WF_vars(DownloadJoin)

NextResumable == ResumableStart \/ DownloadRun

SpecResumable == InitResumable /\ [][NextResumable]_vars

\* ---- a resumable download that finds the journal of an earlier run
\* The task offsets of a run with numTasks tasks that lie in the object.
TaskOffsets(fileLength, numTasks) ==
    {o \in 0..(fileLength - 1) :
       \E i \in 0..(numTasks - 1) :
         o = i * LengthPerThread(fileLength, numTasks)}

\* The status maps an earlier run with numTasks tasks can have left: for
\* some of its tasks, at least one, the completed length of the last entry, at least one
\* chunk and at most the bytes of the task's range.
PriorStatusMaps(fileLength, numTasks) ==
    UNION {{m \in [S -> 1..fileLength] :
              \A o \in S :
                m[o] <= Min(LengthPerThread(fileLength, numTasks),
                            fileLength - o)} :
           S \in (SUBSET TaskOffsets(fileLength, numTasks)) \ {{}}}

\* The journals an earlier, failed run can have left in place.
PriorJournals(fileLength) ==
    UNION {{[state |-> "closed", exists |-> TRUE, closes |-> 0, threads |-> n,
             status |-> m] : m \in PriorStatusMaps(fileLength, n)} :
           n \in 1..MaxTasks}

\* The local file the earlier run left: the bytes its journal says are done.
PriorLocal(m) ==
    [k \in UNION {o..(o + m[o] - 1) : o \in DOMAIN m} |-> RemoteByte(k)]

InitResume ==
    /\ SessInit(0, MaxIdle, MaxCap)
    /\ ~config.anonymous /\ ~config.startNewTransaction
    /\ callers = NoCallers
    /\ \E in \in DownloadInputs :
         /\ in.fileLength >= 1
         /\ \E j \in PriorJournals(in.fileLength) :
              xfer = [NewDownload(in, TRUE) EXCEPT
                        !.journal = j, !.local = PriorLocal(j.status)]
    /\ tasks = NoTasks
    /\ errChan = <<>>

SpecResume == InitResume /\ [][NextResumable]_vars

\* Any transfer: a parallel upload or a parallel download.
InitAnyTransfer == InitUpload \/ InitDownload

NextAnyTransfer == NextUpload \/ NextDownload

SpecTransfer == InitAnyTransfer /\ [][NextAnyTransfer]_vars

\* ================================================================ claims
Idle == SeqToSet(pool.idle)

\* The session is in steady state: no operation holds the mutex.
SteadyState == mutex = "free"

OutstandingNotShared == pool.occupied \ DOMAIN sharedConnections

\* C1: every key of the share map has a count >= 1 and is outstanding in
\* the pool (not idle, not destroyed); right after AcquireConnection has
\* returned c, c is in the map with a count >= 1; a ReturnConnection(c) on
\* an entry of the map takes exactly one share off or removes the key, so no
\* count is ever zero or negative.
C1_ShareMapKeysOutstanding ==
    /\ \A c \in DOMAIN sharedConnections :
         /\ sharedConnections[c] >= 1
         /\ c \in pool.occupied
         /\ c \notin Idle
         /\ c \notin pool.dead
    /\ (last.op = "AcquireConnection" /\ last.err = "none") =>
         /\ last.conn \in DOMAIN sharedConnections
         /\ sharedConnections[last.conn] >= 1
         /\ sharedConnections[last.conn] = last.pre + 1
    /\ (last.op = "ReturnConnection" /\ last.pre >= 1) =>
         \/ /\ last.pre = 1
            /\ last.conn \notin DOMAIN sharedConnections
         \/ /\ last.pre > 1
            /\ last.conn \in DOMAIN sharedConnections
            /\ sharedConnections[last.conn] = last.pre - 1

\* C1 witness: a connection shared by two callers has been given back once.
C1_Witness ==
    /\ last.op = "ReturnConnection"
    /\ last.pre = 2
    /\ last.conn \in DOMAIN sharedConnections
    /\ sharedConnections[last.conn] = 1

\* C3 as stated: in steady state the sum of the share counts, plus the idle
\* connections, plus the outstanding connections that are not shared, is
\* the pool's open-connection count.
C3_SumOfSharesIsOpenCount ==
    SteadyState =>
        TotalShares + Len(pool.idle) + Cardinality(OutstandingNotShared)
            = ConnectionTotal

\* C3 amended: in steady state the number of entries of the share map, plus
\* the idle connections, plus the outstanding connections that are not
\* shared, is the pool's open-connection count; the sum of the share counts
\* exceeds the number of entries by the extra shares of shared connections.
C3_SharedKeysIsOpenCount ==
    SteadyState =>
        /\ Cardinality(DOMAIN sharedConnections) + Len(pool.idle)
             + Cardinality(OutstandingNotShared) = ConnectionTotal
        /\ TotalShares + Len(pool.idle) + Cardinality(OutstandingNotShared)
             = ConnectionTotal
               + SumOver([c \in DOMAIN sharedConnections |->
                             sharedConnections[c] - 1],
                         DOMAIN sharedConnections)

\* C3 witness: a connection is shared by two callers beside an idle one and
\* an outstanding one that is not shared.
C3_Witness ==
    /\ SteadyState
    /\ \E c \in DOMAIN sharedConnections : sharedConnections[c] >= 2
    /\ OutstandingNotShared /= {}

\* C2: two callers acquire concurrently on a pool with one idle connection
\* and a capacity of one.  The caller that acquires first gets a pool
\* connection with a share of 1; the caller that acquires while the first
\* still holds gets the same connection with a share of 2; when both have
\* returned, the share map is empty and each connection they held is idle
\* in the pool, or destroyed when startNewTransaction and
\* poormansRollbackFail are both set.
C2_TwoCallersShareOne ==
    /\ \A i \in DOMAIN callers :
         callers[i].pc \in {"holding", "done"} =>
            IF callers[i].overlap
            THEN /\ callers[i].share = 2
                 /\ callers[i].conn = callers[Other(i)].conn
            ELSE /\ callers[i].share = 1
                 /\ callers[i].conn \in ConnIds
    /\ (\A i \in DOMAIN callers : callers[i].pc = "holding") =>
         /\ DOMAIN sharedConnections = {callers[1].conn}
         /\ sharedConnections[callers[1].conn] = 2
    /\ (DOMAIN callers /= {} /\ \A i \in DOMAIN callers : callers[i].pc = "done") =>
         /\ sharedConnections = EmptyMap
         /\ \A i \in DOMAIN callers :
              IF startNewTransaction /\ poormansRollbackFail
              THEN callers[i].conn \in pool.dead
              ELSE callers[i].conn \in Idle

\* C2 witness: both callers held the same connection at once, the second
\* with a share of 2, and both have returned it.
C2_Witness ==
    /\ DOMAIN callers = CallerIds
    /\ \A i \in CallerIds : callers[i].pc = "done"
    /\ \E i \in CallerIds : callers[i].overlap /\ callers[i].share = 2
    /\ callers[1].conn = callers[2].conn
    /\ callers[1].conn \in Idle


\* ---- the parallel upload
Returned == xfer.pc = "done"

ParallelUpload == xfer.kind = "upload" /\ xfer.path = "parallel"

ReplicaOpened(i) == tasks[i].handle # "none"

\* C8: in a parallel upload the primary handle is opened before any replica
\* handle is opened; it is closed at most once, never while a replica handle
\* that was opened is still open, and exactly once by the time the call
\* returns, on the success path and on every error path.
C8_PrimaryEnclosesReplicas ==
    ParallelUpload =>
        /\ \A i \in DOMAIN tasks : ReplicaOpened(i) => xfer.primary # "none"
        /\ xfer.primaryCloses <= 1
        /\ xfer.primary = "closed" =>
             \A i \in DOMAIN tasks : tasks[i].handle # "open"
        /\ (Returned /\ xfer.primary # "none") =>
             xfer.primary = "closed" /\ xfer.primaryCloses = 1

\* A call that returned an error after a worker failed, with replica handles
\* that were opened and are closed, and the primary handle closed once.
C8_Witness ==
    /\ ParallelUpload /\ Returned /\ xfer.result = "err"
    /\ xfer.primaryCloses = 1
    /\ \E i \in DOMAIN tasks : tasks[i].handle = "closed" /\ tasks[i].sent > 0
    /\ \A i \in DOMAIN tasks : tasks[i].handle = "closed"

\* C9: a parallel upload that ran to its return acquired T+1 unmanaged
\* connections when it succeeded, closed every replica handle with the
\* replica close, and has discarded every unmanaged connection it acquired.
C9_AllUnmanagedDiscarded ==
    (ParallelUpload /\ Returned) =>
        /\ xfer.result = "ok" =>
             /\ Cardinality(xfer.unmanaged) = xfer.numTasks + 1
             /\ \A i \in DOMAIN tasks : tasks[i].closedBy = "replica"
        /\ \A c \in xfer.unmanaged : c \in pool.dead

\* C10 as stated: on the serial path exactly one connection is acquired.
SerialCondition ==
    \/ ~xfer.support
    \/ xfer.fileLength = 0
    \/ NumTasks(xfer.taskNum, xfer.fileLength) = 1

NoParallelResources ==
    /\ xfer.path # "parallel"
    /\ xfer.unmanaged = {}
    /\ xfer.primary = "none"
    /\ tasks = NoTasks

C10_SerialExactlyOneConnection ==
    (xfer.kind = "upload" /\ SerialCondition) =>
        /\ NoParallelResources
        /\ Returned =>
             /\ Cardinality(xfer.acquired) = 1
             /\ xfer.returned = xfer.acquired

\* C10: whenever the server does not support parallel upload, the local
\* file is empty or the task count is 1, the upload takes the serial path
\* and never acquires an unmanaged connection or opens a primary or replica
\* handle; it acquires at most one connection from the session, none when
\* the stat of the local file or the acquisition fails, exactly one when it
\* returns success, and whatever it acquired it has returned at its return.
C10_SerialAtMostOneConnection ==
    (xfer.kind = "upload" /\ SerialCondition) =>
        /\ NoParallelResources
        /\ Cardinality(xfer.acquired) <= 1
        /\ Returned =>
             /\ xfer.returned = xfer.acquired
             /\ xfer.result = "ok" =>
                  xfer.path = "serial" /\ Cardinality(xfer.acquired) = 1

\* An empty file with two tasks asked for, uploaded serially with success.
C10_Witness ==
    /\ xfer.kind = "upload" /\ Returned /\ xfer.result = "ok"
    /\ xfer.support /\ xfer.fileLength = 0 /\ xfer.taskNum = MaxTasks
    /\ xfer.path = "serial"
    /\ Cardinality(xfer.acquired) = 1 /\ xfer.returned = xfer.acquired

\* ---- byte ranges of a parallel transfer
ParallelTransfer == xfer.kind \in {"upload", "download"} /\ xfer.path = "parallel"

Succeeded == xfer.pc = "done" /\ xfer.result = "ok"

WrittenBy(i) == tasks[i].written

AllWritten == UNION {WrittenBy(i) : i \in DOMAIN tasks}

\* C4: in a parallel transfer, upload or download, of an object of N >= 1
\* bytes with T >= 1 tasks, no worker writes a byte at an offset >= N and
\* the ranges written by distinct workers are pairwise disjoint; when the
\* transfer has succeeded their union is exactly [0, N).
C4_RangesPartitionObject ==
    (ParallelTransfer /\ xfer.fileLength >= 1) =>
        /\ \A i \in DOMAIN tasks : \A k \in WrittenBy(i) :
             k >= 0 /\ k < xfer.fileLength
        /\ \A i, j \in DOMAIN tasks :
             i # j => WrittenBy(i) \cap WrittenBy(j) = {}
        /\ Succeeded => AllWritten = 0..(xfer.fileLength - 1)

\* A download that succeeded with tasks whose ranges do not divide the
\* object evenly: the last task's range ends beyond the object.
C4_Witness ==
    /\ ParallelTransfer /\ Succeeded /\ xfer.kind = "download"
    /\ xfer.numTasks >= 2
    /\ xfer.fileLength % xfer.numTasks > 0
    /\ \A i \in DOMAIN tasks : WrittenBy(i) # {}
    /\ \E i \in DOMAIN tasks : tasks[i].remain > 0

\* ---- DownloadDataObjectParallel
LocalIsRemote ==
    /\ DOMAIN xfer.local = 0..(xfer.fileLength - 1)
    /\ \A k \in DOMAIN xfer.local : xfer.local[k] = RemoteByte(k)

\* C5: when a download returns success the local file holds the remote
\* object's content byte for byte, whatever socket failures and retries the
\* workers went through: a worker's next read and next write are both at the
\* first byte of its range it has not yet written.
C5_DownloadIsByteExact ==
    xfer.kind = "download" =>
        /\ Succeeded => LocalIsRemote
        /\ \A i \in DOMAIN tasks :
             /\ tasks[i].pc \in {"trial", "copy", "check", "failed",
                                 "stopped", "reacquire"} =>
                  tasks[i].lastOffset = WritePos(tasks[i])
             /\ tasks[i].pc = "copy" => tasks[i].handlePos = WritePos(tasks[i])
             /\ \A k \in DOMAIN xfer.local : xfer.local[k] = RemoteByte(k)

\* A download that succeeded although a worker lost its socket after it had
\* written part of its range and went on with another connection.
C5_Witness ==
    /\ xfer.kind = "download" /\ Succeeded /\ xfer.fileLength >= 2
    /\ \E i \in DOMAIN tasks :
         /\ tasks[i].retried
         /\ tasks[i].resumedAt > tasks[i].offset
         /\ tasks[i].conn # tasks[i].prevConn

\* C6: a download worker retries only with the socket-failed flag of its
\* connection up, from lastOffset, and the connection it retries with is a
\* fresh one, not the socket-failed connection it has just returned.
C6_RetryWithFreshConnection ==
    xfer.kind = "download" =>
        \A i \in DOMAIN tasks :
          /\ tasks[i].pc = "reacquire" => tasks[i].conn \in socketFailed
          /\ tasks[i].retried =>
               /\ tasks[i].prevConn \in socketFailed
               /\ tasks[i].conn # tasks[i].prevConn

\* ---- DownloadDataObjectParallelResumable
JournalCreated == xfer.journal.state # "none"

\* C7: when a resumable download returns success its journal is closed and
\* deleted; when it returns an error after the journal file was created the
\* journal is closed and is still in place.
C7_JournalClosedAtReturn ==
    (xfer.kind = "download" /\ xfer.resumable /\ Returned) =>
        /\ (xfer.result = "ok" /\ xfer.fileLength > 0) =>
             xfer.journal.state = "closed" /\ ~xfer.journal.exists
        /\ (xfer.result = "err" /\ JournalCreated) =>
             xfer.journal.state = "closed" /\ xfer.journal.exists

\* ---- the progress callback
AnyTransfer == xfer.kind \in {"upload", "buffer", "download"}

BytesMoved == xfer.total > 0 \/ \E i \in DOMAIN tasks : tasks[i].written # {}

\* C11: the callback's first invocation reports 0 and is made before any
\* byte is read or written; no invocation reports more than N; and when the
\* transfer returns success the callback has been invoked and the largest
\* value it reported is N, or the number of bytes actually transferred.
C11_CallbackContract ==
    AnyTransfer =>
        /\ BytesMoved => xfer.cb.first = 0
        /\ xfer.cb.max <= xfer.fileLength
        /\ Succeeded =>
             /\ xfer.cb.first = 0
             /\ xfer.cb.max \in {xfer.fileLength, xfer.total}

\* ------------------------------------------------- session operations
SessionFields ==
    <<pool, sharedConnections, startNewTransaction, poormansRollbackFail>>

Destroyed(c) == c \in pool.dead
InIdle(c) == c \in SeqToSet(pool.idle)

\* C12: ReturnConnection(c) on a connection that is not in the share map
\* changes nothing: share map, pool (idle, outstanding, destroyed) and the
\* transaction flags stay as they are; so does a second return after the
\* share count reached zero.
C12_ReturnOfUnsharedIsNoOp ==
    [][(last'.op = "ReturnConnection" /\ last'.pre = 0)
         => UNCHANGED SessionFields]_vars

\* A return of a connection that already went back (idle or destroyed).
C12_Witness ==
    /\ last.op = "ReturnConnection"
    /\ last.pre = 0
    /\ InIdle(last.conn) \/ Destroyed(last.conn)

\* C13: for an anonymous client user configured to start new transactions,
\* a ReturnConnection that takes the last share destroys the connection
\* instead of putting it on the idle list.
C13_AnonymousDiscardsOnReturn ==
    (/\ config.anonymous
     /\ config.startNewTransaction
     /\ last.op = "ReturnConnection"
     /\ last.pre = 1)
        => Destroyed(last.conn)

PoolGaveNothing(got) == \A g \in got : g.conn = NoConn

\* C14: when the pool gives no connection and the share map is not empty,
\* AcquireConnection returns a connection whose count was minimal in the map,
\* adds one to that entry and leaves the other entries alone.
C14_SharesTheLeastShared ==
    [][(last'.op = "AcquireConnection" /\ PoolGaveNothing(last'.got)
        /\ DOMAIN sharedConnections /= {})
         => /\ last'.err = "none"
            /\ last'.conn \in DOMAIN sharedConnections
            /\ \A d \in DOMAIN sharedConnections :
                 sharedConnections[last'.conn] <= sharedConnections[d]
            /\ sharedConnections' =
                 [sharedConnections EXCEPT ![last'.conn] = @ + 1]]_vars

\* The least shared connection was picked among unequal counts.
C14_Witness ==
    /\ last.op = "AcquireConnection"
    /\ last.err = "none"
    /\ PoolGaveNothing(last.got)
    /\ last.pre >= 1
    /\ \E d \in DOMAIN sharedConnections \ {last.conn} :
         sharedConnections[d] > last.pre

\* C15: when the pool gives no connection and the share map is empty,
\* AcquireConnection fails, the pool-failure counter goes up by exactly one
\* and the share map stays empty.
C15_NothingToShareFails ==
    [][(last'.op = "AcquireConnection" /\ PoolGaveNothing(last'.got)
        /\ DOMAIN sharedConnections = {})
         => /\ last'.err = "noshared"
            /\ last'.conn = NoConn
            /\ poolFailures' = poolFailures + 1
            /\ DOMAIN sharedConnections' = {}]_vars

C15_Witness ==
    /\ last.op = "AcquireConnection"
    /\ last.err = "noshared"
    /\ poolFailures = 1
    /\ DOMAIN sharedConnections = {}

\* C16: ReturnConnection(c) takes one share off c; while shares remain the
\* pool is untouched; with the last share the key leaves the map and c is
\* destroyed if startNewTransaction and poormansRollbackFail are both set,
\* and handed to the pool's Return otherwise.
C16_ReturnAccounting ==
    [][(last'.op = "ReturnConnection" /\ last'.pre >= 1)
         => IF last'.pre > 1
            THEN /\ sharedConnections' =
                      [sharedConnections EXCEPT ![last'.conn] = @ - 1]
                 /\ pool' = pool
            ELSE /\ sharedConnections' = MapDel(sharedConnections, last'.conn)
                 /\ pool' = IF startNewTransaction /\ poormansRollbackFail
                            THEN PoolDiscard(pool, last'.conn)
                            ELSE PoolReturn(pool, last'.conn, socketFailed)]_vars

\* The last share was returned while both flags were set.
C16_Witness ==
    /\ last.op = "ReturnConnection"
    /\ last.pre = 1
    /\ startNewTransaction /\ poormansRollbackFail
    /\ Destroyed(last.conn)

\* C17: DiscardConnection(c) takes one share off c; while shares remain c is
\* not destroyed; with the last share the key leaves the map and c is
\* destroyed, never put on the idle list.
C17_DiscardAccounting ==
    [][(last'.op = "DiscardConnection" /\ last'.pre >= 1)
         => IF last'.pre > 1
            THEN /\ sharedConnections' =
                      [sharedConnections EXCEPT ![last'.conn] = @ - 1]
                 /\ pool' = pool
            ELSE /\ sharedConnections' = MapDel(sharedConnections, last'.conn)
                 /\ last'.conn \in pool'.dead
                 /\ last'.conn \notin pool'.occupied
                 /\ pool'.idle = pool.idle]_vars

\* A discard of the last share with room on the idle list.
C17_Witness ==
    /\ last.op = "DiscardConnection"
    /\ last.pre = 1
    /\ Destroyed(last.conn)
    /\ last.conn \notin socketFailed
    /\ Len(pool.idle) < pool.maxIdle

HandedOut ==
    IF last.op = "AcquireConnection" /\ last.err = "none" THEN {last.conn}
    ELSE IF last.op = "AcquireConnectionsMulti" THEN last.conns
    ELSE {}

\* C19: a connection handed out from the idle list while startNewTransaction
\* is set had a successful rollback after it was taken; when the rollback
\* fails or poormansRollbackFail is set, the pooled connection is destroyed,
\* what is handed out in its place is newly created, and
\* poormansRollbackFail is true afterwards.
C19_IdleConnectionsAreReset ==
    \A g \in last.got :
        /\ (startNewTransaction /\ g.fromIdle /\ g.conn \in HandedOut)
              => g.reset
        /\ g.dropped /= NoConn
              => /\ Destroyed(g.dropped)
                 /\ g.dropped \notin HandedOut
                 /\ g.conn /= NoConn => ~g.fromIdle /\ g.conn > g.dropped
                 /\ poormansRollbackFail

\* One connection came reset from the idle list ...
C19_Witness ==
    /\ startNewTransaction
    /\ \E g \in last.got : g.fromIdle /\ g.reset /\ g.conn \in HandedOut

\* ... and one was swapped for a new one.
C19_WitnessSwap ==
    /\ startNewTransaction
    /\ \E g \in last.got : g.dropped /= NoConn /\ g.conn \in HandedOut

\* ------------------------------------------------------- serial upload
SerialUpload ==
    xfer.kind = "buffer" \/ (xfer.kind = "upload" /\ xfer.path = "serial")

\* C18: a serial upload, from a buffer or from a file, has given back the
\* connection it acquired when it returns, on every exit path; a remote
\* handle it opened is closed before the connection goes back; the
\* replication is issued only after a write without error.
C18_SerialUploadReleases ==
    SerialUpload =>
        /\ Returned => /\ xfer.returned = xfer.acquired
                       /\ DOMAIN sharedConnections = {}
                       /\ xfer.handle /= "open"
        /\ xfer.returned /= {} => xfer.handle /= "open"
        /\ xfer.replicated => xfer.wrote = "ok" /\ xfer.handle = "closed"

\* A serial upload returned after a write error, its connection given back.
C18_Witness ==
    /\ SerialUpload
    /\ Returned
    /\ xfer.wrote = "err"
    /\ xfer.replicate
    /\ xfer.acquired /= {}
    /\ xfer.returned = xfer.acquired

\* ---------------------------------------------- connections of a download
WorkersStarted == xfer.kind = "download" /\ DOMAIN tasks /= {}

\* C20: in a parallel download with T tasks the list AcquireConnectionsMulti
\* returned has at least T elements, also when it was topped up from the
\* share map, and every worker 0..T-1 takes its connection from the list.
C20_EveryWorkerHasConnection ==
    WorkersStarted =>
        /\ Len(xfer.connections) >= xfer.numTasks
        /\ \A i \in DOMAIN tasks :
             /\ tasks[i].pc /= "panic"
             /\ tasks[i].conn /= NoConn

\* ------------------------------------------------------ the error queue
\* C21: in a parallel transfer every worker sends at most one error to
\* errChan, whose capacity is the task count, so that no send of a worker
\* blocks; also for an upload worker whose write fails and whose replica
\* close fails after it.
C21_OneErrorPerWorker ==
    ParallelTransfer =>
        /\ Len(errChan) <= xfer.numTasks
        /\ \A i \in DOMAIN tasks :
             /\ tasks[i].sent <= 1
             /\ tasks[i].pc /= "blocked"

\* ------------------------------------------- the end of a parallel upload
WorkerErrors == \E i \in DOMAIN tasks : tasks[i].sent >= 1

UploadJoined ==
    /\ xfer.kind = "upload" /\ xfer.path = "parallel"
    /\ DOMAIN tasks /= {}
    /\ xfer.pc \in {"discardPrimary", "done"}

\* C22: in a parallel upload in which a worker reported an error the
\* orchestrator has waited for all workers, closes the primary handle,
\* returns the error that was sent first and issues no replication; the
\* replication is issued only when no worker reported an error and the close
\* of the primary handle succeeded.
C22_UploadErrorsStopReplication ==
    UploadJoined =>
        /\ AllTasksDone
        /\ xfer.primary = "closed" /\ xfer.primaryCloses = 1
        /\ WorkerErrors => /\ xfer.result = "err"
                           /\ xfer.error.seq = 1
                           /\ ~xfer.replicated
        /\ xfer.replicated <=>
             (~WorkerErrors /\ xfer.closeOk /\ xfer.replicate)

\* Two workers reported errors and the upload returned the first of them.
C22_Witness ==
    /\ UploadJoined
    /\ xfer.replicate
    /\ \A i \in DOMAIN tasks : tasks[i].sent >= 1
    /\ Cardinality(DOMAIN tasks) >= 2
    /\ xfer.error.seq = 1

\* ------------------------------------------------- the ranges of the tasks
CeilDiv(n, d) == (n + d - 1) \div d

\* The range [i*L, min(N, (i+1)*L)) of task i.
ClippedRange(i, n, numTasks) ==
    LET L == CeilDiv(n, numTasks) IN
    {k \in 0..(n - 1) : i * L <= k /\ k < (i + 1) * L}

TasksStarted == ParallelTransfer /\ DOMAIN tasks /= {} /\ xfer.fileLength >= 1

\* C23 as stated: for N >= 1 the length handed to task i is clipped, so that
\* offset + length <= N, and no task starts at an offset greater than N.
C23_LengthsAreClipped ==
    TasksStarted =>
        \A i \in DOMAIN tasks :
            /\ tasks[i].offset = i * CeilDiv(xfer.fileLength, xfer.numTasks)
            /\ tasks[i].offset <= xfer.fileLength
            /\ tasks[i].offset + tasks[i].length <= xfer.fileLength

\* C23 amended: task i starts at i*L with the full length L = ceil(N/T),
\* not clipped to N; the bytes it transfers all lie in
\* [i*L, min(N, (i+1)*L)), and are all of them when the transfer succeeds.
C23_RangesClippedByEndOfObject ==
    TasksStarted =>
        \A i \in DOMAIN tasks :
            /\ tasks[i].offset = i * CeilDiv(xfer.fileLength, xfer.numTasks)
            /\ tasks[i].length = CeilDiv(xfer.fileLength, xfer.numTasks)
            /\ WrittenBy(i) \subseteq
                 ClippedRange(i, xfer.fileLength, xfer.numTasks)
            /\ Succeeded =>
                 WrittenBy(i) = ClippedRange(i, xfer.fileLength, xfer.numTasks)

\* A transfer that succeeded with a last task whose length reaches past N.
C23_Witness ==
    /\ TasksStarted
    /\ Succeeded
    /\ \E i \in DOMAIN tasks :
         /\ tasks[i].offset + tasks[i].length > xfer.fileLength
         /\ WrittenBy(i) /= {}

\* ---------------------------------------------- stopping on a peer's error
\* C24: a download worker that sees an error in errChan after a chunk stops
\* there and transfers no further chunk.
C24_StoppedWorkerStops ==
    [][\A i \in DOMAIN tasks :
         (xfer.kind = "download" /\ tasks[i].pc = "stopped")
            => tasks'[i].pc \in {"stopped", "finish"}]_vars

\* C24, second part: the error a download returns is the one sent first, the
\* error of a worker that failed, never that of a worker that stopped.
C24_FirstErrorIsAFailure ==
    (xfer.kind = "download" /\ Returned /\ xfer.error /= NoError)
        => xfer.error.seq = 1 /\ xfer.error.what /= "stopped"

\* A download returned the failure of one worker while another had stopped.
C24_WitnessStopped ==
    /\ xfer.kind = "download" /\ Returned
    /\ xfer.error.seq = 1
    /\ \E e \in SeqToSet(errChan) : e.what = "stopped"

\* ------------------------------------------------- resuming a download
Resuming ==
    xfer.kind = "download" /\ xfer.resumable /\ xfer.path = "parallel"

RequestedTasks ==
    DownloadNumTasks(xfer.taskNum, xfer.fileLength, pool.maxCap)

\* C25: a resumable download that finds a journal runs with the journal's
\* task count, whatever the caller asked for: that many workers, errChan of
\* that capacity, the partition length of that count, so that every entry
\* of the journal is keyed by the task offset of one of the workers.
C25_JournalTaskCountWins ==
    Resuming =>
        /\ xfer.numTasks = xfer.journal.threads
        /\ Len(errChan) <= xfer.journal.threads
        /\ DOMAIN tasks /= {} =>
             /\ DOMAIN tasks = 0..(xfer.journal.threads - 1)
             /\ Len(xfer.connections) <= xfer.journal.threads
             /\ \A i \in DOMAIN tasks :
                  /\ tasks[i].length =
                       CeilDiv(xfer.fileLength, xfer.journal.threads)
                  /\ tasks[i].offset = i * tasks[i].length
             /\ \A o \in DOMAIN xfer.journal.status :
                  \E i \in DOMAIN tasks : tasks[i].offset = o

\* A resumed download succeeded with a task count the caller did not ask for.
C25_Witness ==
    /\ Resuming /\ Succeeded
    /\ RequestedTasks /= xfer.numTasks
    /\ \E i \in DOMAIN tasks : tasks[i].lastOffset > tasks[i].offset

\* The completed length the journal held for task i when the run started.
PriorDone(i) ==
    IF tasks[i].offset \in DOMAIN xfer.prior
    THEN xfer.prior[tasks[i].offset] ELSE 0

PriorDoneOf == [i \in DOMAIN tasks |-> PriorDone(i)]

WrittenCount == [i \in DOMAIN tasks |-> Cardinality(WrittenBy(i))]

\* The tasks that are past the seeding of the shared total.
Seeded ==
    {i \in DOMAIN tasks :
       tasks[i].pc \in {"trial", "copy", "check", "failed", "stopped",
                        "reacquire"}}

\* C26: in a resumed download a worker with a journal entry for its task
\* offset starts with lastOffset = offset + completed length and
\* taskRemain = length - completed length and adds the completed length to
\* the shared total before it reads; a worker without an entry starts at its
\* offset and adds nothing.  No byte the journal records as completed is
\* transferred again, and a successful run ends with a total of N.
C26_ResumeFromJournal ==
    (Resuming /\ DOMAIN tasks /= {}) =>
        /\ \A i \in DOMAIN tasks :
             /\ tasks[i].pc = "open" =>
                  /\ tasks[i].lastOffset = tasks[i].offset + PriorDone(i)
                  /\ tasks[i].remain = tasks[i].length - PriorDone(i)
             /\ tasks[i].lastOffset =
                  tasks[i].offset + PriorDone(i) + Cardinality(WrittenBy(i))
             /\ \A k \in WrittenBy(i) : k >= tasks[i].offset + PriorDone(i)
        /\ xfer.total >= SumOver(PriorDoneOf, Seeded)
                           + SumOver(WrittenCount, DOMAIN tasks)
        /\ xfer.total <= SumOver(PriorDoneOf, DOMAIN tasks)
                           + SumOver(WrittenCount, DOMAIN tasks)
        /\ Succeeded => xfer.total = xfer.fileLength

\* A resumed download succeeded: one worker went on after the bytes its
\* entry recorded, another had no entry.
C26_Witness ==
    /\ Resuming /\ Succeeded
    /\ \E i \in DOMAIN tasks : PriorDone(i) > 0 /\ WrittenBy(i) /= {}
    /\ \E i \in DOMAIN tasks : PriorDone(i) = 0 /\ WrittenBy(i) /= {}

\* The completed length the journal holds for a task offset (0: no entry).
Entry(j, o) == IF o \in DOMAIN j.status THEN j.status[o] ELSE 0

C28_MultiReturns ==
    /\ mutex = "free"
    /\ last.op = "AcquireConnectionsMulti" => last.err = "none"

\* ------------------------------------------- the end of a parallel upload
UploadWaiting == xfer.kind = "upload" /\ xfer.pc = "wait"

\* C29: a parallel upload whose workers were started returns: whatever the
\* workers run into, each of them signals completion, and the wait of the
\* orchestrator for all of them ends.
C29_UploadReturns == UploadWaiting ~> Returned

\* --------------------------------------- the share map after a download
SharesGivenBack ==
    /\ DOMAIN sharedConnections = {}
    /\ pool.occupied = {}

\* C30: when a parallel download returns, with success or with an error and
\* after any number of retries, every share it took is given back: on a
\* session nobody else uses the share map is empty and every connection is
\* idle or destroyed.
C30_DownloadGivesSharesBack ==
    (xfer.kind = "download" /\ Returned) => SharesGivenBack

\* The same once every worker has run its deferred function to the end.
C30_SharesBackAfterWorkersEnd ==
    (xfer.kind = "download" /\ Returned
       /\ \A i \in DOMAIN tasks : tasks[i].pc = "end")
        => SharesGivenBack

\* ------------------------------------------- the end of the retry loop
\* From some point on no socket fails any more.
SocketFailuresEnd == <>[][socketFailed' = socketFailed]_vars

\* The tasks of a parallel download run, each with a connection of the list.
WorkersRunning ==
    /\ xfer.kind = "download" /\ xfer.pc = "wait"
    /\ \A i \in DOMAIN tasks : tasks[i].pc /= "panic"

\* C31: when the scheduler is weakly fair to the workers and only finitely
\* many socket failures occur, every worker of a parallel download finishes
\* and the download returns; no worker retries for ever on a connection
\* whose socket has failed already, also when connections are shared.
C31_DownloadReturns ==
    SocketFailuresEnd => (WorkersRunning ~> Returned)

====
